---- MODULE Spec2Model ----
(***************************************************************************)
(* Model of app.py: the Belgian real-estate dashboard.                     *)
(*   load_data          read_csv + profit cleaning + to_numeric(coerce)    *)
(*   get_coordinates    the static locality -> (lat, lon) table            *)
(*   enrich_with_coords lookup with the Brussels default, on a copy        *)
(*   build_map          one marker and one connector per record            *)
(*   main               path resolution, then the linear pipeline          *)
(*                                                                         *)
(* Texts are sequences of one-character strings.  Coordinates are the      *)
(* source's decimal literals scaled by 10^4 (50.8466 is 508466).           *)
(* A parsed number is a pair (m, e) standing for m / 10^e, normalised so   *)
(* that equal numbers have equal pairs.                                    *)
(***************************************************************************)
EXTENDS Integers, Sequences, FiniteSets, TLC

VARIABLES
    fs,         \* the two candidate files: [local |-> File, parent |-> File]
    pc,         \* position of main
    csv_path,   \* "unset", "local" or "parent"
    df,         \* main's local variable df: <<>> or <<table>>
    trace,      \* the calls main has completed, in order
    tableView,  \* <<>> or <<table handed to st.dataframe>>
    barView,    \* <<>> or <<table handed to build_bar_chart>>
    mapView,    \* <<>> or <<the folium map handed to folium_static>>
    error,      \* "" or the exception that ended the run
    raw,        \* profit text under cleaning (pure-function specifications)
    cleaned,    \* <<>> or <<the cleaned text>>
    profit,     \* <<>> or <<the parsed value>>
    file,       \* the file handed to load_data (load specification)
    alt,        \* <<>> or <<load_data's result on the counterfactual file>>
    arg,        \* the table object handed to enrich_with_coords, as it is now
    ret         \* <<>> or <<the table enrich_with_coords returned>>

vars == <<fs, pc, csv_path, df, trace, tableView, barView, mapView, error,
          raw, cleaned, profit, file, alt, arg, ret>>

(***************************************************************************)
(* Bounds of the model.                                                    *)
(***************************************************************************)
MaxRows == 2
MaxLen == 3

(***************************************************************************)
(* Characters and texts.                                                   *)
(***************************************************************************)
Euro == "€"
Comma == ","
Space == " "
Tab == "\t"
Dot == "."

\* str.strip() with no argument strips whitespace; of the characters the
\* model draws texts from, these are the whitespace ones.
Whitespace == {Space, Tab}

Digits == {"0", "1", "2", "3", "4", "5", "6", "7", "8", "9"}

DigitVal(c) ==
    CASE c = "0" -> 0 [] c = "1" -> 1 [] c = "2" -> 2 [] c = "3" -> 3
      [] c = "4" -> 4 [] c = "5" -> 5 [] c = "6" -> 6 [] c = "7" -> 7
      [] c = "8" -> 8 [] c = "9" -> 9

\* The characters texts are drawn from: the three removed characters, a
\* decimal point, two digits, a whitespace character other than the space,
\* and a letter.
Chars == {Euro, Comma, Space, Dot, "0", "1", Tab, "N"}

RECURSIVE SeqsUpTo(_, _)
SeqsUpTo(S, n) ==
    IF n = 0 THEN {<<>>}
    ELSE LET shorter == SeqsUpTo(S, n - 1)
         IN shorter \cup {Append(s, c) : s \in {t \in shorter : Len(t) = n - 1}, c \in S}

Texts == SeqsUpTo(Chars, MaxLen)

\* Series.str.replace(c, "", regex=False): every occurrence of c removed.
StrReplace(s, c) == SelectSeq(s, LAMBDA x : x # c)

RECURSIVE LStrip(_)
LStrip(s) ==
    IF s # <<>> /\ Head(s) \in Whitespace THEN LStrip(Tail(s)) ELSE s

RECURSIVE RStrip(_)
RStrip(s) ==
    IF s # <<>> /\ s[Len(s)] \in Whitespace
    THEN RStrip(SubSeq(s, 1, Len(s) - 1))
    ELSE s

\* Series.str.strip()
StrStrip(s) == RStrip(LStrip(s))

\* Variant of Clean: the space replacement left out.
CleanKeepsSpaces(s) == StrStrip(StrReplace(StrReplace(s, Euro), Comma))

\* The cleaning chain of load_data.
Clean(s) == StrStrip(StrReplace(StrReplace(StrReplace(s, Euro), Comma), Space))

(***************************************************************************)
(* Numeric parsing: pd.to_numeric(..., errors="coerce") on one text.       *)
(***************************************************************************)
NaN == [nan |-> TRUE, m |-> 0, e |-> 0]
Num(m, e) == [nan |-> FALSE, m |-> m, e |-> e]

RECURSIVE DigitsToInt(_)
DigitsToInt(s) ==
    IF s = <<>> THEN 0
    ELSE 10 * DigitsToInt(SubSeq(s, 1, Len(s) - 1)) + DigitVal(s[Len(s)])

RECURSIVE DropTrailingZeros(_)
DropTrailingZeros(s) ==
    IF s # <<>> /\ s[Len(s)] = "0"
    THEN DropTrailingZeros(SubSeq(s, 1, Len(s) - 1))
    ELSE s

AllDigits(s) == \A i \in 1..Len(s) : s[i] \in Digits

DotAt(s) == IF \E i \in 1..Len(s) : s[i] = Dot
            THEN CHOOSE i \in 1..Len(s) : s[i] = Dot /\ \A j \in 1..(i - 1) : s[j] # Dot
            ELSE 0

\* A text is numeric when it is digits with at most one decimal point and at
\* least one digit ("45.000", "1234", ".5", "5.").
IsNumeric(s) ==
    LET d == DotAt(s)
        ip == IF d = 0 THEN s ELSE SubSeq(s, 1, d - 1)
        fp == IF d = 0 THEN <<>> ELSE SubSeq(s, d + 1, Len(s))
    IN AllDigits(ip) /\ AllDigits(fp) /\ Len(ip) + Len(fp) > 0

ParseNumber(s) ==
    LET d == DotAt(s)
        ip == IF d = 0 THEN s ELSE SubSeq(s, 1, d - 1)
        fp == DropTrailingZeros(IF d = 0 THEN <<>> ELSE SubSeq(s, d + 1, Len(s)))
    IN Num(DigitsToInt(ip \o fp), Len(fp))

\* errors="coerce": a text that does not parse becomes NaN.
ToNumeric(s) == IF IsNumeric(s) THEN ParseNumber(s) ELSE NaN

(***************************************************************************)
(* Tables.  A table is its ordered column names and its ordered rows; a    *)
(* row maps each column name to a cell.  Text cells are [nan, s]: nan is   *)
(* the missing value read_csv produces for an empty cell.                  *)
(***************************************************************************)
ProfitCol == "Latest profit after tax (€)"

Text(s) == [nan |-> FALSE, s |-> s]
NoText == [nan |-> TRUE, s |-> <<>>]
NoLocality == [nan |-> TRUE, s |-> ""]

\* A cell of a float column: a number, or the missing value.
Float(v) == [nan |-> FALSE, v |-> v]
NoFloat == [nan |-> TRUE, v |-> 0]

Range(s) == {s[i] : i \in 1..Len(s)}
HasCol(t, c) == c \in Range(t.cols)
Column(t, c) == [i \in 1..Len(t.rows) |-> t.rows[i][c]]

\* df[c] = vals: an existing column is overwritten in place, a new one is
\* appended after the others.
SetColumn(t, c, vals) ==
    [cols |-> IF HasCol(t, c) THEN t.cols ELSE Append(t.cols, c),
     rows |-> [i \in 1..Len(t.rows) |->
                 [x \in DOMAIN t.rows[i] \cup {c} |->
                    IF x = c THEN vals[i] ELSE t.rows[i][x]]]]

\* df.drop(columns=cs), for columns the table has.
DropColumns(t, cs) ==
    [cols |-> SelectSeq(t.cols, LAMBDA c : c \notin cs),
     rows |-> [i \in 1..Len(t.rows) |->
                 [x \in DOMAIN t.rows[i] \ cs |-> t.rows[i][x]]]]

EmptyTable == [cols |-> <<>>, rows |-> <<>>]

(***************************************************************************)
(* Files.  kind is "absent" (no such file), "garbage" (not parseable as    *)
(* tabular data) or "csv"; a csv file holds raw cell texts.                *)
(***************************************************************************)
Absent == [kind |-> "absent", cols |-> <<>>, rows |-> <<>>]
Garbage == [kind |-> "garbage", cols |-> <<>>, rows |-> <<>>]
Csv(cols, rows) == [kind |-> "csv", cols |-> cols, rows |-> rows]

Ok(t) == [ok |-> TRUE, err |-> "", val |-> t]
Raise(e) == [ok |-> FALSE, err |-> e, val |-> EmptyTable]

\* read_csv turns an empty cell of a text column into the missing value.
ReadProfitCell(s) == IF s = <<>> THEN NoText ELSE Text(s)
ReadLocalityCell(s) == IF s = "" THEN NoLocality ELSE Text(s)

ReadRow(r) ==
    [c \in DOMAIN r |->
        IF c = ProfitCol THEN ReadProfitCell(r[c])
        ELSE IF c = "Locality" THEN ReadLocalityCell(r[c])
        ELSE r[c]]

\* Variant of ReadCsv: a missing file read as an empty table.
ReadCsvEmptyOnMissing(f) ==
    IF f.kind = "absent"
    THEN Ok([cols |-> <<"Name", "Address", "Locality", ProfitCol>>, rows |-> <<>>])
    ELSE IF f.kind = "garbage" THEN Raise("ParserError")
    ELSE Ok([cols |-> f.cols, rows |-> [i \in 1..Len(f.rows) |-> ReadRow(f.rows[i])]])

\* pd.read_csv(csv_path)
ReadCsv(f) ==
    IF f.kind = "absent" THEN Raise("FileNotFoundError")
    ELSE IF f.kind = "garbage" THEN Raise("ParserError")
    ELSE Ok([cols |-> f.cols, rows |-> [i \in 1..Len(f.rows) |-> ReadRow(f.rows[i])]])

\* Series.astype(str): the missing value becomes the text "nan".
AsStr(cell) == IF cell.nan THEN <<"n", "a", "n">> ELSE cell.s

\* Variant of ToNumericColumn: one unparseable text voids the whole column.
ToNumericColumnAllOrNothing(col) ==
    IF \A i \in 1..Len(col) : IsNumeric(col[i])
    THEN [i \in 1..Len(col) |-> ParseNumber(col[i])]
    ELSE [i \in 1..Len(col) |-> NaN]

\* pd.to_numeric(cleaned, errors="coerce"), element by element.
ToNumericColumn(col) == [i \in 1..Len(col) |-> ToNumeric(col[i])]

\* Variant of LoadData: to_numeric with errors="raise".
LoadDataRaise(f) ==
    LET got == ReadCsv(f)
    IN IF ~got.ok THEN got
       ELSE IF ~HasCol(got.val, ProfitCol) THEN Raise("KeyError")
       ELSE LET col == Column(got.val, ProfitCol)
                cln == [i \in 1..Len(col) |-> Clean(AsStr(col[i]))]
            IN IF \E i \in 1..Len(cln) : cln[i] # <<>> /\ ~IsNumeric(cln[i])
               THEN Raise("ValueError")
               ELSE Ok(SetColumn(got.val, "Profit", ToNumericColumn(cln)))

\* load_data(csv_path), given the file at csv_path.
LoadData(f) ==
    LET got == ReadCsv(f)
    IN IF ~got.ok THEN got
       ELSE IF ~HasCol(got.val, ProfitCol) THEN Raise("KeyError")
       ELSE LET col == Column(got.val, ProfitCol)
                cln == [i \in 1..Len(col) |-> Clean(AsStr(col[i]))]
            IN Ok(SetColumn(got.val, "Profit", ToNumericColumn(cln)))

(***************************************************************************)
(* Coordinates.                                                            *)
(***************************************************************************)
GetCoordinates ==
    ("Waterloo" :> <<507219, 43997>>) @@
    ("Brussels" :> <<508466, 43528>>) @@
    ("Strombeek-Bever" :> <<509050, 43681>>) @@
    ("Brussels (Uccle)" :> <<507997, 43476>>) @@
    ("Sint-Niklaas" :> <<511642, 41439>>) @@
    ("Brussels (Ixelles)" :> <<508287, 43676>>) @@
    ("Brussels (1000)" :> <<508466, 43528>>)

\* dict.get(key, default); the missing value equals no key.
DictGet(d, cell, default) ==
    IF ~cell.nan /\ cell.s \in DOMAIN d THEN d[cell.s] ELSE default

\* Variant of Lookup: the key matched without regard to its first letter's case.
LookupFoldCase(loc) ==
    IF ~loc.nan /\ loc.s = "waterloo" THEN GetCoordinates["Waterloo"]
    ELSE DictGet(GetCoordinates, loc, GetCoordinates["Brussels"])

\* coords.get(loc, coords.get("Brussels"))
Lookup(loc) == DictGet(GetCoordinates, loc, GetCoordinates["Brussels"])

\* Variant of EnrichWithCoords: coords[loc] in place of coords.get.
EnrichWithCoordsStrict(t) ==
    IF ~HasCol(t, "Locality")
       \/ \E i \in 1..Len(t.rows) :
            t.rows[i]["Locality"].nan \/ t.rows[i]["Locality"].s \notin DOMAIN GetCoordinates
    THEN [ok |-> FALSE, err |-> "KeyError", input |-> t, val |-> EmptyTable]
    ELSE LET locs == Column(t, "Locality")
             latitudes == [i \in 1..Len(locs) |-> Float(GetCoordinates[locs[i].s][1])]
             longitudes == [i \in 1..Len(locs) |-> Float(GetCoordinates[locs[i].s][2])]
         IN [ok |-> TRUE, err |-> "", input |-> t,
             val |-> SetColumn(SetColumn(t, "Latitude", latitudes),
                               "Longitude", longitudes)]

\* Variant of EnrichWithCoords: the columns assigned on the argument itself.
EnrichInPlace(t) ==
    IF ~HasCol(t, "Locality")
    THEN [ok |-> FALSE, err |-> "KeyError", input |-> t, val |-> EmptyTable]
    ELSE LET locs == Column(t, "Locality")
             latitudes == [i \in 1..Len(locs) |-> Float(Lookup(locs[i])[1])]
             longitudes == [i \in 1..Len(locs) |-> Float(Lookup(locs[i])[2])]
             same == SetColumn(SetColumn(t, "Latitude", latitudes),
                               "Longitude", longitudes)
         IN [ok |-> TRUE, err |-> "", input |-> same, val |-> same]

\* enrich_with_coords(df): input is the argument object after the call,
\* val the returned table.
EnrichWithCoords(t) ==
    IF ~HasCol(t, "Locality")
    THEN [ok |-> FALSE, err |-> "KeyError", input |-> t, val |-> EmptyTable]
    ELSE LET locs == Column(t, "Locality")
             latitudes == [i \in 1..Len(locs) |-> Float(Lookup(locs[i])[1])]
             longitudes == [i \in 1..Len(locs) |-> Float(Lookup(locs[i])[2])]
             copy == t
         IN [ok |-> TRUE, err |-> "", input |-> t,
             val |-> SetColumn(SetColumn(copy, "Latitude", latitudes),
                               "Longitude", longitudes)]

(***************************************************************************)
(* The map.  A folium map is its centre, its zoom and its children in the  *)
(* order they were added.                                                  *)
(***************************************************************************)
Center == <<508466, 43528>>

Marker(p, name, address) ==
    [kind |-> "Marker", locations |-> <<p>>, popup |-> <<name, address>>]
PolyLine(p, q) ==
    [kind |-> "PolyLine", locations |-> <<p, q>>, popup |-> <<>>]

\* Variant of RowChildren: no connector for a record on the centre.
RowChildrenNoLineAtCenter(row) ==
    LET p == <<row["Latitude"].v, row["Longitude"].v>>
    IN IF p = Center THEN <<Marker(p, row["Name"], row["Address"])>>
       ELSE <<Marker(p, row["Name"], row["Address"]), PolyLine(Center, p)>>

\* The children one record adds: its marker, then its connector.
RowChildren(row) ==
    LET p == <<row["Latitude"].v, row["Longitude"].v>>
    IN <<Marker(p, row["Name"], row["Address"]), PolyLine(Center, p)>>

RECURSIVE MapChildren(_)
MapChildren(rows) ==
    IF rows = <<>> THEN <<>>
    ELSE RowChildren(Head(rows)) \o MapChildren(Tail(rows))

\* build_map(df): the map handed to folium_static.
BuildMap(t) ==
    [location |-> Center, zoom_start |-> 8, children |-> MapChildren(t.rows)]

(***************************************************************************)
(* Inputs.  Name and Address are present in every file (the input          *)
(* contract); the profit column, the Locality column and a Latitude        *)
(* column of the file's own (with empty cells) vary.                       *)
(***************************************************************************)
Required == <<"Name", "Address", "Locality", ProfitCol>>
WithLatitude == Append(Required, "Latitude")
NoProfitCol == <<"Name", "Address", "Locality">>
NoLocalityCol == <<"Name", "Address", ProfitCol>>

RowsFor(cols, locs, profits) ==
    {[c \in Range(cols) |->
        CASE c = "Name" -> "Agency"
          [] c = "Address" -> "Rue de la Loi 1"
          [] c = "Locality" -> l
          [] c = ProfitCol -> p
          [] c = "Latitude" -> NoFloat] : l \in locs, p \in profits}

CsvFiles(colLists, locs, profits) ==
    UNION {{Csv(cols, rows) : rows \in SeqsUpTo(RowsFor(cols, locs, profits), MaxRows)}
           : cols \in colLists}

\* "€1,0" (parses to 10) and "N" (does not parse).
MainProfits == {<<Euro, "1", Comma, "0">>, <<"N">>}
MainLocalities == {"Waterloo", "Unknown Town"}
MainFiles ==
    {Absent, Garbage} \cup
    CsvFiles({Required, WithLatitude, NoProfitCol, NoLocalityCol},
             MainLocalities, MainProfits)

\* Every key of the coordinate table, a near-miss, an unknown town and an
\* empty cell.
EnrichLocalities == DOMAIN GetCoordinates \cup {"waterloo", "Unknown Town", ""}
EnrichFiles ==
    CsvFiles({Required, WithLatitude, NoLocalityCol}, EnrichLocalities,
             {<<Euro, "1", Comma, "0">>})

LoadProfits ==
    {<<Euro, "1", Comma, "0">>, <<"1", Dot, "0">>, <<"N">>, <<>>, <<Space>>,
     <<Tab, "1">>, <<"1", Tab, "0">>, <<Euro>>}
ParseableProfits == {<<Euro, "1", Comma, "0">>, <<"0", Dot, "1">>}
LoadFiles ==
    {Absent, Garbage} \cup
    CsvFiles({Required, NoProfitCol}, {"Waterloo"}, LoadProfits)

\* The file f with the profit text of row k replaced by repl.
Counterfactual(f, k, repl) ==
    IF f.kind = "csv" /\ k <= Len(f.rows) /\ ProfitCol \in Range(f.cols)
    THEN [f EXCEPT !.rows[k][ProfitCol] = repl]
    ELSE f

(***************************************************************************)
(* main                                                                    *)
(***************************************************************************)
MainIdle ==
    /\ pc = "start" /\ csv_path = "unset" /\ df = <<>> /\ trace = <<>>
    /\ tableView = <<>> /\ barView = <<>> /\ error = ""
    /\ fs = [local |-> Absent, parent |-> Absent]
CleanIdle == raw = <<>> /\ cleaned = <<>> /\ profit = <<>>
LoadIdle == file = [f |-> Absent, k |-> 1, repl |-> <<>>] /\ alt = <<>>
EnrichIdle == arg = EmptyTable

Init ==
    /\ fs \in [local : MainFiles, parent : MainFiles]
    /\ pc = "start" /\ csv_path = "unset" /\ df = <<>> /\ trace = <<>>
    /\ tableView = <<>> /\ barView = <<>> /\ mapView = <<>> /\ error = ""
    /\ CleanIdle /\ LoadIdle /\ EnrichIdle /\ ret = <<>>

MainFrame == UNCHANGED <<fs, raw, cleaned, profit, file, alt, ret>>

\* Variant of ResolvePath: the parent candidate tried first.
ResolvePathParentFirst(files) ==
    IF files.parent.kind # "absent" THEN "parent" ELSE "local"

\* csv_path = local_csv if local_csv.exists() else parent_csv
ResolvePath(files) == IF files.local.kind # "absent" THEN "local" ELSE "parent"

Resolve ==
    /\ pc = "start"
    /\ csv_path' = ResolvePath(fs)
    /\ pc' = "resolved"
    /\ UNCHANGED <<df, trace, tableView, barView, mapView, error, arg>>
    /\ MainFrame

\* df = load_data(str(csv_path))
Load ==
    /\ pc = "resolved"
    /\ LET r == LoadData(fs[csv_path])
       IN IF r.ok
          THEN /\ df' = <<r.val>>
               /\ trace' = Append(trace, "load_data")
               /\ pc' = "loaded"
               /\ error' = error
          ELSE /\ error' = r.err
               /\ pc' = "aborted"
               /\ UNCHANGED <<df, trace>>
    /\ UNCHANGED <<csv_path, tableView, barView, mapView, arg>>
    /\ MainFrame

\* df = enrich_with_coords(df)
Enrich ==
    /\ pc = "loaded"
    /\ LET r == EnrichWithCoords(df[1])
       IN /\ arg' = r.input
          /\ IF r.ok
             THEN /\ df' = <<r.val>>
                  /\ trace' = Append(trace, "enrich_with_coords")
                  /\ pc' = "enriched"
                  /\ error' = error
             ELSE /\ error' = r.err
                  /\ pc' = "aborted"
                  /\ UNCHANGED <<df, trace>>
    /\ UNCHANGED <<csv_path, tableView, barView, mapView>>
    /\ MainFrame

\* st.dataframe(df.drop(columns=["Latitude", "Longitude"]))
ShowTable ==
    /\ pc = "enriched"
    /\ tableView' = <<DropColumns(df[1], {"Latitude", "Longitude"})>>
    /\ trace' = Append(trace, "table")
    /\ pc' = "table"
    /\ UNCHANGED <<csv_path, df, barView, mapView, error, arg>>
    /\ MainFrame

\* build_bar_chart(df)
ShowBarChart ==
    /\ pc = "table"
    /\ barView' = <<df[1]>>
    /\ trace' = Append(trace, "bar_chart")
    /\ pc' = "bar"
    /\ UNCHANGED <<csv_path, df, tableView, mapView, error, arg>>
    /\ MainFrame

\* Variant of ShowMap: the map rendered right after the table.
ShowMapEarly ==
    /\ pc = "table"
    /\ mapView' = <<BuildMap(df[1])>>
    /\ trace' = Append(trace, "map")
    /\ pc' = "done"
    /\ UNCHANGED <<csv_path, df, tableView, barView, error, arg>>
    /\ MainFrame

\* build_map(df)
ShowMap ==
    /\ pc = "bar"
    /\ mapView' = <<BuildMap(df[1])>>
    /\ trace' = Append(trace, "map")
    /\ pc' = "done"
    /\ UNCHANGED <<csv_path, df, tableView, barView, error, arg>>
    /\ MainFrame

Next == Resolve \/ Load \/ Enrich \/ ShowTable \/ ShowBarChart \/ ShowMap

Spec == Init /\ [][Next]_vars

(***************************************************************************)
(* The cleaning chain and the parse on one profit text.                    *)
(***************************************************************************)
InitClean ==
    /\ raw \in Texts /\ cleaned = <<>> /\ profit = <<>>
    /\ MainIdle /\ mapView = <<>> /\ LoadIdle /\ EnrichIdle /\ ret = <<>>

CleanFrame ==
    UNCHANGED <<fs, pc, csv_path, df, trace, tableView, barView, mapView, error,
                file, alt, arg, ret>>

CleanText ==
    /\ cleaned = <<>>
    /\ cleaned' = <<Clean(raw)>>
    /\ UNCHANGED <<raw, profit>>
    /\ CleanFrame

ParseText ==
    /\ cleaned # <<>> /\ profit = <<>>
    /\ profit' = <<ToNumeric(cleaned[1])>>
    /\ UNCHANGED <<raw, cleaned>>
    /\ CleanFrame

NextClean == CleanText \/ ParseText

SpecClean == InitClean /\ [][NextClean]_vars

(***************************************************************************)
(* load_data on one file, and on the same file with one profit text        *)
(* replaced by a parseable one.                                            *)
(***************************************************************************)
InitLoad ==
    /\ file \in [f : LoadFiles, k : 1..MaxRows, repl : ParseableProfits]
    /\ alt = <<>> /\ ret = <<>>
    /\ MainIdle /\ mapView = <<>> /\ CleanIdle /\ EnrichIdle

LoadFrame ==
    UNCHANGED <<fs, pc, csv_path, df, trace, tableView, barView, mapView, error,
                raw, cleaned, profit, file, arg>>

LoadActual ==
    /\ ret = <<>>
    /\ ret' = <<LoadData(file.f)>>
    /\ UNCHANGED alt
    /\ LoadFrame

LoadCounterfactual ==
    /\ alt = <<>>
    /\ alt' = <<LoadData(Counterfactual(file.f, file.k, file.repl))>>
    /\ UNCHANGED ret
    /\ LoadFrame

NextLoad == LoadActual \/ LoadCounterfactual

SpecLoad == InitLoad /\ [][NextLoad]_vars

(***************************************************************************)
(* enrich_with_coords on a loaded table, then build_map on its result.     *)
(***************************************************************************)
InitEnrich ==
    /\ arg \in {LoadData(f).val : f \in EnrichFiles}
    /\ ret = <<>> /\ mapView = <<>>
    /\ MainIdle /\ CleanIdle /\ LoadIdle

EnrichFrame ==
    UNCHANGED <<fs, pc, csv_path, df, trace, tableView, barView, error,
                raw, cleaned, profit, file, alt>>

CallEnrich ==
    /\ ret = <<>>
    /\ LET r == EnrichWithCoords(arg)
       IN /\ ret' = <<r>>
          /\ arg' = r.input
    /\ UNCHANGED mapView
    /\ EnrichFrame

CallBuildMap ==
    /\ ret # <<>> /\ ret[1].ok /\ mapView = <<>>
    /\ mapView' = <<BuildMap(ret[1].val)>>
    /\ UNCHANGED <<arg, ret>>
    /\ EnrichFrame

NextEnrich == CallEnrich \/ CallBuildMap

SpecEnrich == InitEnrich /\ [][NextEnrich]_vars

(***************************************************************************)
(* Properties.                                                             *)
(***************************************************************************)
Removed == {Euro, Comma, Space}
Kept(s) == SelectSeq(s, LAMBDA x : x \notin Removed)
CoordCols == {"Latitude", "Longitude"}

\* C3, as stated: the cleaned text is the profit text with every euro sign,
\* comma and space removed and every other character kept, in order.
C3_KeepsEveryOtherCharacter ==
    cleaned # <<>> => cleaned[1] = Kept(raw)

\* C3, amended: the cleaned text holds no euro sign, comma or space; it is
\* the rest of the profit text, in order, less the whitespace (such as a
\* tab) that rest begins and ends with; "€1,234 " parses to 1234 and
\* "€ 45.000" is parsed from "45.000", to 45.
C3_CleanRemovesAndStrips ==
    /\ cleaned # <<>> =>
         LET c == cleaned[1]
             k == Kept(raw)
         IN /\ \A i \in 1..Len(c) : c[i] \notin Removed
            /\ c # <<>> => c[1] \notin Whitespace /\ c[Len(c)] \notin Whitespace
            /\ \E i \in 1..(Len(k) + 1) : \E j \in 0..Len(k) :
                 /\ c = SubSeq(k, i, j)
                 /\ \A x \in 1..(i - 1) : k[x] \in Whitespace
                 /\ \A x \in (j + 1)..Len(k) : k[x] \in Whitespace
    /\ profit # <<>> /\ cleaned[1] # <<>> /\ AllDigits(cleaned[1])
         => profit[1] = Num(DigitsToInt(SelectSeq(raw, LAMBDA x : x \in Digits)), 0)
    /\ Clean(<<Euro, "1", Comma, "2", "3", "4", Space>>) = <<"1", "2", "3", "4">>
    /\ ToNumeric(Clean(<<Euro, "1", Comma, "2", "3", "4", Space>>)) = Num(1234, 0)
    /\ Clean(<<Euro, Space, "4", "5", Dot, "0", "0", "0">>)
         = <<"4", "5", Dot, "0", "0", "0">>
    /\ ToNumeric(Clean(<<Euro, Space, "4", "5", Dot, "0", "0", "0">>)) = Num(45, 0)

\* A text with a euro sign and a decimal point has been cleaned and parsed
\* to a number.
C3_Witness ==
    /\ profit # <<>> /\ ~profit[1].nan
    /\ Euro \in Range(raw) /\ Dot \in Range(raw)

(***************************************************************************)
(* load_data                                                               *)
(***************************************************************************)
HasProfitCol(f) == f.kind = "csv" /\ ProfitCol \in Range(f.cols)

\* The text of row i's profit cell is not numeric once cleaned.
Unparseable(f, i) == ~IsNumeric(Clean(AsStr(ReadProfitCell(f.rows[i][ProfitCol]))))

C7_FailsOnlyOnMissingOrUnparseableFile ==
    ret # <<>> /\ file.f.kind = "csv" => ret[1].ok

\* C7, amended: load_data returns a table, with one row per row of the file
\* and raising nothing, for every file that exists, parses as tabular data
\* and has the profit column.
C7_FailsOnlyOnMissingFileOrColumn ==
    ret # <<>> /\ file.f.kind = "csv" /\ ProfitCol \in Range(file.f.cols) =>
        /\ ret[1].ok
        /\ ret[1].err = ""
        /\ Len(ret[1].val.rows) = Len(file.f.rows)

\* load_data has returned a table for a file with a profit text that does
\* not parse.
C7_Witness ==
    /\ ret # <<>> /\ ret[1].ok /\ HasProfitCol(file.f)
    /\ \E i \in 1..Len(file.f.rows) : file.f.rows[i][ProfitCol] = <<"N">>

(***************************************************************************)
(* main                                                                    *)
(***************************************************************************)
Exists(f) == f.kind # "absent"
Rendered == <<tableView, barView, mapView>>
FullOrder == <<"load_data", "enrich_with_coords", "table", "bar_chart", "map">>

\* What load_data returns for the resolved file.
Loaded == LoadData(fs[csv_path]).val

\* C5: once resolved, the path is the local candidate whenever the local
\* file exists (the parent may exist too), the parent candidate only when
\* the local file does not exist, and never anything else; the table main
\* holds after load_data is the one read from that candidate.
C5_LocalCandidateFirst ==
    pc # "start" =>
        /\ csv_path \in {"local", "parent"}
        /\ Exists(fs.local) => csv_path = "local"
        /\ csv_path = "parent" => ~Exists(fs.local)
        /\ pc = "loaded" =>
             df[1] = LoadData(IF Exists(fs.local) THEN fs.local ELSE fs.parent).val

\* Both candidates exist, with different contents, and the local one was
\* loaded.
C5_Witness ==
    /\ pc = "loaded" /\ csv_path = "local"
    /\ fs.local.kind = "csv" /\ fs.parent.kind = "csv"
    /\ fs.local # fs.parent
    /\ Len(fs.local.rows) >= 1

\* C6: with the file at neither candidate path, the run gets no further
\* than the load, ends with the file-not-found error, has rendered none of
\* the three views, and takes no further step.
C6_MissingFileAbortsBeforeAnyView ==
    ~Exists(fs.local) /\ ~Exists(fs.parent) =>
        /\ pc \in {"start", "resolved", "aborted"}
        /\ Rendered = <<<<>>, <<>>, <<>>>>
        /\ trace = <<>>
        /\ pc = "aborted" => error = "FileNotFoundError" /\ ~ENABLED Next

\* The run has aborted with both candidates missing.
C6_Witness ==
    pc = "aborted" /\ ~Exists(fs.local) /\ ~Exists(fs.parent)

\* C8: the completed calls are always a prefix of load_data,
\* enrich_with_coords, table, bar chart, map, and all five once the run is
\* complete; a view is rendered only when enrichment has been done, and
\* each view shows the enriched table of the resolved file.
C8_LinearPipeline ==
    /\ Len(trace) <= Len(FullOrder) /\ trace = SubSeq(FullOrder, 1, Len(trace))
    /\ pc = "done" => trace = FullOrder
    /\ tableView # <<>> <=> Len(trace) >= 3
    /\ barView # <<>> <=> Len(trace) >= 4
    /\ mapView # <<>> <=> Len(trace) >= 5
    /\ Len(trace) >= 2 =>
         LET enriched == EnrichWithCoords(Loaded).val
         IN /\ df = <<enriched>>
            /\ tableView # <<>> =>
                 LET shown == tableView[1]
                 IN /\ Len(shown.rows) = Len(enriched.rows)
                    /\ \A i \in 1..Len(enriched.rows) :
                         \A c \in DOMAIN shown.rows[i] :
                            shown.rows[i][c] = enriched.rows[i][c]
            /\ barView # <<>> => barView[1] = enriched
            /\ mapView # <<>> =>
                 LET shown == mapView[1]
                 IN /\ Len(shown.children) = 2 * Len(enriched.rows)
                    /\ \A i \in 1..Len(enriched.rows) :
                         shown.children[2 * i - 1].locations =
                            << <<enriched.rows[i]["Latitude"].v,
                                 enriched.rows[i]["Longitude"].v>> >>

\* A run over a file of two records is complete.
C8_Witness ==
    pc = "done" /\ Len(df[1].rows) >= 2 /\ mapView # <<>>

\* C10, as stated: the argument of enrich_with_coords is left as loaded,
\* the returned table is the loaded one with Latitude and Longitude added
\* after its columns and every loaded field unchanged, and the table view
\* shows the loaded table.
C10_EveryLoadedFieldKept ==
    Len(trace) >= 2 =>
        LET loaded == Loaded
            out == df[1]
        IN /\ arg = loaded
           /\ out.cols = loaded.cols \o <<"Latitude", "Longitude">>
           /\ Len(out.rows) = Len(loaded.rows)
           /\ \A i \in 1..Len(loaded.rows) :
                \A c \in DOMAIN loaded.rows[i] : out.rows[i][c] = loaded.rows[i][c]
           /\ tableView # <<>> => tableView[1] = loaded

\* C10, amended: the argument of enrich_with_coords is left as loaded; the
\* returned table has the same rows in the same order, every loaded field
\* not named Latitude or Longitude unchanged, and its columns are the
\* loaded ones followed by those of Latitude and Longitude it did not have;
\* the table view shows, in load order, every loaded field not named
\* Latitude or Longitude, Profit among them.
C10_LoadedFieldsKeptExceptCoordinates ==
    Len(trace) >= 2 =>
        LET loaded == Loaded
            out == df[1]
        IN /\ arg = loaded
           /\ out.cols =
                loaded.cols \o SelectSeq(<<"Latitude", "Longitude">>,
                                         LAMBDA c : c \notin Range(loaded.cols))
           /\ Len(out.rows) = Len(loaded.rows)
           /\ \A i \in 1..Len(loaded.rows) :
                /\ DOMAIN out.rows[i] = DOMAIN loaded.rows[i] \cup CoordCols
                /\ \A c \in DOMAIN loaded.rows[i] \ CoordCols :
                     out.rows[i][c] = loaded.rows[i][c]
           /\ tableView # <<>> =>
                LET shown == tableView[1]
                IN /\ shown.cols = SelectSeq(loaded.cols, LAMBDA c : c \notin CoordCols)
                   /\ "Profit" \in Range(shown.cols)
                   /\ Len(shown.rows) = Len(loaded.rows)
                   /\ \A i \in 1..Len(loaded.rows) :
                        /\ DOMAIN shown.rows[i] = DOMAIN loaded.rows[i] \ CoordCols
                        /\ \A c \in DOMAIN shown.rows[i] :
                             shown.rows[i][c] = loaded.rows[i][c]

\* The table view is rendered for a loaded table of two records that has a
\* Latitude column of its own.
C10_Witness ==
    /\ tableView # <<>> /\ Len(arg.rows) >= 2
    /\ "Latitude" \in Range(arg.cols)
    /\ "Latitude" \notin Range(tableView[1].cols)

(***************************************************************************)
(* enrich_with_coords and build_map                                        *)
(***************************************************************************)
Pair(row) == <<row["Latitude"], row["Longitude"]>>

\* C1: for a table with a Locality column enrich_with_coords raises nothing
\* and returns, row for row, a Latitude and a Longitude that are not
\* missing, whatever the Locality (a key, no key, or a missing value) and
\* whatever Latitude the table had.
C1_EveryRowGetsCoordinates ==
    ret # <<>> /\ "Locality" \in Range(arg.cols) =>
        /\ ret[1].ok
        /\ Len(ret[1].val.rows) = Len(arg.rows)
        /\ \A i \in 1..Len(arg.rows) :
             /\ CoordCols \subseteq DOMAIN ret[1].val.rows[i]
             /\ ~ret[1].val.rows[i]["Latitude"].nan
             /\ ~ret[1].val.rows[i]["Longitude"].nan

\* enrich_with_coords has returned for a table with an unknown locality and
\* a missing one.
C1_Witness ==
    /\ ret # <<>> /\ ret[1].ok /\ Len(arg.rows) >= 2
    /\ \E i \in 1..Len(arg.rows) : arg.rows[i]["Locality"].nan
    /\ \E i \in 1..Len(arg.rows) : arg.rows[i]["Locality"] = Text("Unknown Town")

\* C2: each row gets the pair of the coordinate-table key that equals its
\* Locality exactly, and (50.8466, 4.3528) when no key does; Waterloo gets
\* (50.7219, 4.3997).
C2_ExactKeyOrBrussels ==
    ret # <<>> /\ ret[1].ok =>
        \A i \in 1..Len(arg.rows) :
            LET loc == arg.rows[i]["Locality"]
                got == Pair(ret[1].val.rows[i])
                keys == {k \in DOMAIN GetCoordinates : ~loc.nan /\ loc.s = k}
            IN /\ \A k \in keys :
                    got = <<Float(GetCoordinates[k][1]), Float(GetCoordinates[k][2])>>
               /\ keys = {} => got = <<Float(508466), Float(43528)>>
               /\ loc = Text("Waterloo") => got = <<Float(507219), Float(43997)>>

\* The table of Waterloo then Unknown Town has been enriched.
C2_Witness ==
    /\ ret # <<>> /\ ret[1].ok /\ Len(arg.rows) = 2
    /\ arg.rows[1]["Locality"] = Text("Waterloo")
    /\ arg.rows[2]["Locality"] = Text("Unknown Town")
    /\ Pair(ret[1].val.rows[2]) = <<Float(508466), Float(43528)>>

\* C9: the map is centred on (50.8466, 4.3528) and holds, for each record
\* in order, one marker at the record's pair and then one connector from
\* the centre to that pair, and nothing else: as many markers, and as many
\* connectors, as records.
C9_OneMarkerAndConnectorPerRecord ==
    mapView # <<>> =>
        LET m == mapView[1]
            rows == ret[1].val.rows
            n == Len(rows)
            markers == {j \in 1..Len(m.children) : m.children[j].kind = "Marker"}
            lines == {j \in 1..Len(m.children) : m.children[j].kind = "PolyLine"}
        IN /\ m.location = <<508466, 43528>>
           /\ Cardinality(markers) = n
           /\ Cardinality(lines) = n
           /\ Len(m.children) = 2 * n
           /\ \A i \in 1..n :
                LET p == <<rows[i]["Latitude"].v, rows[i]["Longitude"].v>>
                IN /\ m.children[2 * i - 1].kind = "Marker"
                   /\ m.children[2 * i - 1].locations = <<p>>
                   /\ m.children[2 * i].kind = "PolyLine"
                   /\ m.children[2 * i].locations = <<<<508466, 43528>>, p>>

\* The map is built for two records that share a pair, the centre itself.
C9_Witness ==
    /\ mapView # <<>> /\ Len(ret[1].val.rows) >= 2
    /\ \A i \in 1..Len(ret[1].val.rows) :
         Pair(ret[1].val.rows[i]) = <<Float(508466), Float(43528)>>

====
